---- MODULE Spec2Model ----
(***************************************************************************)
(* arrow-extendr: conversion of arrow-rs values to and from R objects over *)
(* the Arrow C Data Interface (src/src/from.rs, src/src/to.rs).            *)
(*                                                                         *)
(* Three specifications share this module:                                 *)
(*   SpecFrom   from_arrow_robj: an R object is classified, C-ABI structs  *)
(*              are allocated on the native side, the host fills them, the *)
(*              native value is built and the structs are dropped.         *)
(*   SpecTo     to_arrow_robj / into_arrow_robj: C-ABI structs are built   *)
(*              from a native value and moved into host-allocated structs. *)
(*   SpecRound  export followed by import, at the level of the data.       *)
(*                                                                         *)
(* The C-ABI structs are those of arrow-rs (FFI_ArrowSchema,               *)
(* FFI_ArrowArray, FFI_ArrowArrayStream): a struct whose release field is  *)
(* non-null owns resources, Drop invokes release when the field is         *)
(* non-null, and release sets the field to null.  The host helpers are     *)
(* those of nanoarrow: pointer_move copies the struct and nulls the        *)
(* source's release field, pointer_export fills an empty struct.  A host   *)
(* call can fail; the failure is a choice of the environment.              *)
(***************************************************************************)
EXTENDS Integers, Sequences, FiniteSets, TLC

\* ------------------------------------------------------------ bounds
MaxTags == 2        \* class tags carried by one R object
MaxBatches == 2     \* batches held by a stream source
MaxRefs == 2        \* native references to one imported array
MaxEnds == 2        \* next() calls made after the end of a stream
MaxCalls == 2       \* release invocations the receiver makes on one struct
MaxLen == 3         \* elements of a native array
MaxOffset == 1      \* elements a sliced array skips in its buffers
MaxDepth == 1       \* nesting of struct and list types in a schema value
MaxRows == 2        \* length of a struct array and of each of its children

\* ------------------------------------------------------ from.rs: data
\* The class tags the conversions test with inherits(), and one unrelated tag.
Tags ==
  {"nanoarrow_schema", "nanoarrow_array", "nanoarrow_array_stream",
   "Field", "Schema", "DataType", "Array", "RecordBatch", "data.frame"}

\* The six impls of FromArrowRobj.
Targets ==
  {"Field", "DataType", "Schema", "ArrayData", "RecordBatch",
   "ArrowArrayStreamReader"}

NoTag == "<none>"

\* The nanoarrow class each impl tests first.
LightTag(t) ==
  CASE t \in {"Field", "DataType", "Schema"} -> "nanoarrow_schema"
    [] t = "ArrayData" -> "nanoarrow_array"
    [] OTHER -> "nanoarrow_array_stream"

\* FullTag with the test of the Field impl copied into the DataType impl.
FullTagCopied(t) ==
  CASE t \in {"Field", "DataType"} -> "Field"
    [] t = "Schema" -> "Schema"
    [] t = "ArrayData" -> "Array"
    [] t = "RecordBatch" -> "RecordBatch"
    [] OTHER -> NoTag

\* The arrow class each impl tests second; ArrowArrayStreamReader has none.
FullTag(t) ==
  CASE t = "Field" -> "Field"
    [] t = "DataType" -> "DataType"
    [] t = "Schema" -> "Schema"
    [] t = "ArrayData" -> "Array"
    [] t = "RecordBatch" -> "RecordBatch"
    [] OTHER -> NoTag

\* robj.inherits(tag)
inherits(classes, tag) == tag \in classes

\* The structs an impl allocates on the native side in each branch.
\* "pulled" is the array struct the stream reader hands to get_next.
Structs == {"array", "schema", "stream", "pulled"}

StructsOf(t, branch) ==
  CASE t \in {"Field", "DataType", "Schema"} -> {"schema"}
    [] t = "ArrayData" -> {"array", "schema"}
    [] t = "RecordBatch" /\ branch = "full" -> {"array", "schema"}
    [] OTHER -> {"stream"}

BatchIds == {1, 2}

SeqsUpTo(S, n) == UNION {[1..k -> S] : k \in 0..n}

VARIABLES
  iTarget,     \* the impl of FromArrowRobj being called
  iClasses,    \* the class tags of the R object
  iSrc,        \* the batches the R stream object still holds, in order
  iSrcErr,     \* the R stream's next get_next reports a failure
  iPc,         \* position in from_arrow_robj
  iBranch,     \* "none" | "light" (nanoarrow) | "full" (arrow)
  iChecked,    \* a class check has run
  iAlloc,      \* struct -> allocated on the native side
  iRel,        \* struct -> its release field is non-null
  iPop,        \* struct -> times the host populated it
  iRelCount,   \* struct -> times its release callback was invoked
  iHolder,     \* struct -> "none" | "local" | "native" | "reader" | "dropped"
  iHostCalls,  \* host export helper calls made so far
  iAddrs,      \* structs whose address was handed to the host
  iShape,      \* the struct array a RecordBatch source delivers: its length
               \* and the lengths of its children
  iBatch,      \* the RecordBatch returned: its row count and column lengths
  iDict,       \* the array descriptor the host delivers carries a dictionary
  iResult,     \* "none" | "Ok" | "Err" | "panic"
  iRefs,       \* live native references to the imported array data
  iReader,     \* "none" | "live" | "dropped"
  iSchemaCalls,\* get_schema calls made on the imported stream
  iPulls,      \* get_next calls made on the imported stream
  iGot,        \* the batches next() yielded, in order
  iEnds,       \* times next() yielded the end sentinel
  iSrc0,       \* the batches the R stream object held when the call began
  iHostFail    \* a host call or a conversion of host data has failed

fromVars ==
  <<iTarget, iClasses, iSrc, iSrcErr, iPc, iBranch, iChecked, iAlloc, iRel,
    iPop, iRelCount, iHolder, iHostCalls, iAddrs, iResult, iRefs, iReader,
    iSchemaCalls, iPulls, iGot, iEnds, iSrc0, iHostFail, iShape, iBatch,
    iDict>>

\* -------------------------------------------------------- to.rs: data
\* The impls of ToArrowRobj / IntoArrowRobj.
ArrayKinds == {"ArrayData", "PrimitiveArray"}
SchemaKinds == {"Field", "Schema", "DataType"}
StreamKinds ==
  {"RecordBatch", "ArrowArrayStreamReader", "BoxReader", "VecRecordBatch",
   "RecordBatchIterator"}
Kinds == ArrayKinds \cup SchemaKinds \cup StreamKinds

\* The C-ABI structs an export creates: to_ffi gives an array and a schema,
\* FFI_ArrowSchema::try_from a schema, FFI_ArrowArrayStream::new a stream.
EStructs == {"array", "schema", "stream"}

\* CreatedBy when to_ffi makes the array struct and leaves the schema empty.
CreatedByArrayOnly(k) ==
  CASE k \in ArrayKinds -> {"array"}
    [] k \in SchemaKinds -> {"schema"}
    [] OTHER -> {"stream"}

CreatedBy(k) ==
  CASE k \in ArrayKinds -> {"array", "schema"}
    [] k \in SchemaKinds -> {"schema"}
    [] OTHER -> {"stream"}

\* A batch of the export side: the schema it was built with and its identity.
SchemaIds == {"s1", "s2"}
EBatches == [sch : SchemaIds, id : BatchIds]

\* SchemaBuilder::new().finish(): the schema with no fields.
EmptySchema == "s0"

VARIABLES
  eKind,       \* the impl of ToArrowRobj / IntoArrowRobj being called
  eSupported,  \* the native type has a C-ABI format string
  eVec,        \* the batches of the value being exported, in order
  eDeclared,   \* the schema a reader being exported declares
  ePc,         \* position in to_arrow_robj
  eResult,     \* "none" | "Ok" | "Err" | "panic"
  eCreated,    \* struct -> the exporter created it
  eSrcRel,     \* struct -> the exporter's local has a non-null release field
  eDstAlloc,   \* struct -> the host allocated a receiver struct
  eDstRel,     \* struct -> the receiver struct has a non-null release field
  eMoved,      \* struct -> nanoarrow_pointer_move completed
  eFreed,      \* struct -> times its release callback freed its resources
  eDstCalls,   \* struct -> times the receiver invoked release on its struct
  eTagged,     \* nanoarrow_array_set_schema attached the schema to the array
  eNative,     \* the caller's array: "none" | "alive" | "dropped"
  eTemp,       \* the ArrayData made by PrimitiveArray::into_data is alive
  eBufRc,      \* references to the array's buffer allocation
  eBufFreed,   \* the buffer allocation has been freed
  eProd,       \* the batches the exported reader has yet to yield
  eProdLive,   \* the exported reader has not been dropped
  eSchema,     \* the schema the exported stream declares
  eOut,        \* the batches the receiver pulled, in order
  eEnds,       \* pulls that returned the end sentinel
  eFailed,     \* pulls refused because the stream was released
  eRelFrom     \* the stream state in which the receiver released it

\* ---------------------------------------------- state of a round trip
\* A value exported by to_arrow_robj / into_arrow_robj, held by the host and
\* imported again by from_arrow_robj, with the contents of every struct.
VARIABLES
  rKind,       \* what is exported: "array", "batch", "vec", "Field",
               \* "DataType", "Schema" ("none": idle)
  rArr,        \* the native array (ArrayData)
  rVec,        \* the native batches (one for a RecordBatch)
  rBase,       \* the address of the first local struct of a frame
  rPc,         \* "start", "exported", "imported", "reading", "done"
  rHostArr,    \* the receiver's array struct
  rHostSch,    \* the receiver's schema struct
  rHostTag,    \* the receiver's array is tagged with its schema
  rHostStream, \* the receiver's stream struct
  rHostOk,     \* every host call so far did what it was asked
  rOutArr,     \* the imported ArrayData
  rReader,     \* the imported stream reader
  rOut,        \* the batches next() has yielded
  rEnds,       \* the number of times next() has yielded the end sentinel
  rRes,        \* the result of the last operation
  rSch,        \* the native Field, DataType or Schema
  rOutSch      \* the imported Field, DataType or Schema

roundVars ==
  <<rKind, rArr, rVec, rBase, rPc, rHostArr, rHostSch, rHostTag, rHostStream,
    rHostOk, rOutArr, rReader, rOut, rEnds, rRes, rSch, rOutSch>>

toVars ==
  <<eKind, eSupported, eVec, eDeclared, ePc, eResult, eCreated, eSrcRel,
    eDstAlloc, eDstRel, eMoved, eFreed, eDstCalls, eTagged, eNative,
    eTemp, eBufRc, eBufFreed, eProd, eProdLive, eSchema, eOut, eEnds, eFailed,
    eRelFrom>>

\* What no step of an export changes: its argument, and the import side.
eFrame == <<eKind, eSupported, eVec, eDeclared, fromVars, roundVars>>
eStructVars ==
  <<eCreated, eSrcRel, eDstAlloc, eDstRel, eMoved, eFreed, eDstCalls>>
eBuf == <<eNative, eTemp, eBufRc, eBufFreed>>
eStream == <<eProd, eProdLive, eSchema, eOut, eEnds, eFailed, eRelFrom>>

\* Groups of the variables above, for the actions' frame conditions.
\* What no step of an import changes: its argument, and the export side.
iFrame == <<iTarget, iClasses, iSrc0, iShape, iDict, toVars, roundVars>>
iStream == <<iSrc, iSrcErr, iReader, iSchemaCalls, iPulls, iGot, iEnds>>
iMem == <<iAlloc, iRel, iPop, iRelCount, iHolder, iRefs>>
iLog == <<iChecked, iHostCalls, iAddrs>>

vars == <<fromVars, toVars, roundVars>>

\* ------------------------------------------------- from.rs: operations
NoStruct == [s \in Structs |-> FALSE]
NoCount == [s \in Structs |-> 0]

\* Drop for FFI_ArrowSchema / FFI_ArrowArray / FFI_ArrowArrayStream: the
\* release callback is invoked only when the release field is non-null, and
\* the callback sets the field to null.
DropRel(rel, S) == [s \in Structs |-> IF s \in S THEN FALSE ELSE rel[s]]
DropCount(rel, cnt, S) ==
  [s \in Structs |-> IF s \in S /\ rel[s] THEN cnt[s] + 1 ELSE cnt[s]]
DropHolder(hold, S) ==
  [s \in Structs |-> IF s \in S THEN "dropped" ELSE hold[s]]

\* The host fills the structs S: each gets a non-null release field.
FillRel(rel, S) == [s \in Structs |-> IF s \in S THEN TRUE ELSE rel[s]]
FillPop(pop, S) == [s \in Structs |-> IF s \in S THEN pop[s] + 1 ELSE pop[s]]

\* Locals when the structs are leaked instead of dropped.
LocalsForgotten == {}

\* The structs owned by locals of from_arrow_robj, dropped when it returns
\* or unwinds.
Locals == {s \in Structs : iHolder[s] = "local"}

\* The structs whose buffers the returned native value refers to.
Natives == {s \in Structs : iHolder[s] = "native"}

\* ------------------------------------------------ the data on the wire
\* The primitive types of the examples (test_i32, test_f64), the byte width
\* of one value and the format string of the C data interface.
PrimTypes == {"Int32", "Float64"}

Width(ty) == IF ty = "Int32" THEN 4 ELSE 8

Format(ty) == IF ty = "Int32" THEN "i" ELSE "g"

TypeOfFormat(f) ==
  CASE f = "i" -> "Int32"
    [] f = "g" -> "Float64"
    [] OTHER -> "unsupported"

\* The values an element can take (as bit patterns), and Option<T>.
Vals == {1, 3, 258}
Some(x) == [some |-> TRUE, v |-> x]
None == [some |-> FALSE, v |-> 0]
Opt == {Some(x) : x \in Vals} \cup {None}

RECURSIVE Pow(_, _)
Pow(b, n) == IF n = 0 THEN 1 ELSE b * Pow(b, n - 1)

\* The little-endian bytes of a value of width w, and back.
RECURSIVE ToBytes(_, _)
ToBytes(x, w) ==
  IF w = 0 THEN <<>> ELSE <<x % 256>> \o ToBytes(x \div 256, w - 1)

RECURSIVE FromBytes(_)
FromBytes(bs) ==
  IF bs = <<>> THEN 0 ELSE Head(bs) + 256 * FromBytes(Tail(bs))

RECURSIVE Flatten(_)
Flatten(ss) == IF ss = <<>> THEN <<>> ELSE Head(ss) \o Flatten(Tail(ss))

CeilDiv(n, d) == (n + d - 1) \div d

\* A validity bitmap: bit k of byte j is element 8 j + k, least significant
\* bit first.
PackBits(bits) ==
  [j \in 1..CeilDiv(Len(bits), 8) |->
     LET base == 8 * (j - 1) IN
     LET bit(k) == IF base + k + 1 <= Len(bits) /\ bits[base + k + 1]
                   THEN Pow(2, k) ELSE 0
     IN bit(0) + bit(1) + bit(2) + bit(3) + bit(4) + bit(5) + bit(6) + bit(7)]

\* Bit n (from 0) of a bitmap.
BitAt(bytes, n) == (bytes[(n \div 8) + 1] \div Pow(2, n % 8)) % 2 = 1

\* Int32Array::from(vec![Some(1), None, Some(3)]): the ArrayData of a
\* primitive array.  A null slot holds the default value 0; the null buffer
\* is kept only when there is a null.
PrimitiveArray_from(ty, opts) ==
  LET nnull == Cardinality({i \in 1..Len(opts) : ~opts[i].some}) IN
  [ty |-> ty,
   len |-> Len(opts),
   offset |-> 0,
   null_count |-> nnull,
   has_nulls |-> nnull > 0,
   nulls |-> IF nnull > 0 THEN PackBits([i \in 1..Len(opts) |-> opts[i].some])
             ELSE <<>>,
   values |-> Flatten([i \in 1..Len(opts) |-> ToBytes(opts[i].v, Width(ty))])]

\* Element i (from 1) of an ArrayData, as an Option: its validity bit and the
\* value at offset + i - 1 of the values buffer.
Elem(data, i) ==
  LET n == data.offset + i - 1
      w == Width(data.ty)
  IN IF data.has_nulls /\ ~BitAt(data.nulls, n)
     THEN None
     ELSE Some(FromBytes(SubSeq(data.values, n * w + 1, (n + 1) * w)))

Elems(data) == [i \in 1..data.len |-> Elem(data, i)]

\* ArrayData::slice(off, n): the buffers are shared, the window moves.
slice(data, off, n) ==
  LET win == [data EXCEPT !.offset = data.offset + off, !.len = n] IN
  [win EXCEPT !.null_count =
     Cardinality({i \in 1..n : ~Elem(win, i).some})]

\* FFI_ArrowArray::empty() / FFI_ArrowSchema::empty(): zeroed structs.
EmptyArray ==
  [length |-> 0, null_count |-> 0, offset |-> 0, n_buffers |-> 0,
   validity |-> [present |-> FALSE, bytes |-> <<>>], values |-> <<>>,
   children |-> <<>>, release |-> FALSE]

EmptyCSchema ==
  [format |-> "", name |-> "", nullable |-> FALSE, children |-> <<>>,
   release |-> FALSE]

\* to_ffi that leaves the validity buffer out of the array struct.
to_ffi_no_validity(data) ==
  [array |->
     [length |-> data.len, null_count |-> 0, offset |-> data.offset,
      n_buffers |-> 2, validity |-> [present |-> FALSE, bytes |-> <<>>],
      values |-> data.values, children |-> <<>>, release |-> TRUE],
   schema |->
     [format |-> Format(data.ty), name |-> "", nullable |-> TRUE,
      children |-> <<>>, release |-> TRUE]]

\* to_ffi(data): the array struct points at the array's own buffers (the
\* validity bitmap first, a null pointer when there is none) and carries
\* length, null count and offset; the schema struct carries the format
\* string of the data type.
to_ffi(data) ==
  [array |->
     [length |-> data.len, null_count |-> data.null_count,
      offset |-> data.offset, n_buffers |-> 2,
      validity |-> [present |-> data.has_nulls, bytes |-> data.nulls],
      values |-> data.values, children |-> <<>>, release |-> TRUE],
   schema |->
     [format |-> Format(data.ty), name |-> "", nullable |-> TRUE,
      children |-> <<>>, release |-> TRUE]]

\* The ArrayData from_ffi builds for a primitive type ty: the buffer lengths
\* are computed from length + offset and the width of ty, the null buffer is
\* taken when the first buffer pointer is non-null.
import_primitive(array, ty) ==
  LET n == array.length + array.offset IN
  [ty |-> ty,
   len |-> array.length,
   offset |-> array.offset,
   null_count |-> array.null_count,
   has_nulls |-> array.validity.present,
   nulls |-> IF array.validity.present
             THEN SubSeq(array.validity.bytes, 1, CeilDiv(n, 8)) ELSE <<>>,
   values |-> SubSeq(array.values, 1, n * Width(ty))]

\* ffi::from_ffi(array, &schema): the data type is parsed from the schema's
\* format string and decides the buffer layout.
from_ffi(array, schema) == import_primitive(array, TypeOfFormat(schema.format))

\* A field, and a schema: an ordered list of fields.
FieldOf(name, ty, nullable) == [name |-> name, ty |-> ty, nullable |-> nullable]

\* RecordBatch::try_new(schema, columns)
BatchOf(fields, cols) ==
  [schema |-> fields, cols |-> cols,
   rows |-> IF cols = <<>> THEN 0 ELSE cols[1].len]

\* FFI_ArrowSchema::try_from(&Schema), what get_schema returns: a struct
\* ("+s") with one child per field, in order.
export_schema(fields) ==
  [format |-> "+s", name |-> "", nullable |-> FALSE,
   children |-> [i \in 1..Len(fields) |->
                   [format |-> Format(fields[i].ty), name |-> fields[i].name,
                    nullable |-> fields[i].nullable, children |-> <<>>,
                    release |-> TRUE]],
   release |-> TRUE]

\* Schema::try_from(&FFI_ArrowSchema): the fields are the children, in order.
import_schema(c) ==
  [i \in 1..Len(c.children) |->
     FieldOf(c.children[i].name, TypeOfFormat(c.children[i].format),
             c.children[i].nullable)]

\* get_next of an exported stream: StructArray::from(batch) as an array
\* struct, one child per column.
export_batch(b) ==
  [length |-> b.rows, null_count |-> 0, offset |-> 0, n_buffers |-> 1,
   validity |-> [present |-> FALSE, bytes |-> <<>>], values |-> <<>>,
   children |-> [i \in 1..Len(b.cols) |-> to_ffi(b.cols[i]).array],
   release |-> TRUE]

\* next() of ArrowArrayStreamReader: the array struct is imported as a struct
\* array of the reader's schema, child i with the type of field i, and turned
\* into a RecordBatch.
import_batch(array, fields) ==
  [schema |-> fields,
   cols |-> [i \in 1..Len(array.children) |->
               import_primitive(array.children[i], fields[i].ty)],
   rows |-> array.length]

\* child_data pairing each child with the first field of the same name.
child_data_by_name(array, fields) ==
  [i \in 1..Len(array.children) |->
     LET j == CHOOSE j \in 1..Len(fields) :
                /\ fields[j].name = fields[i].name
                /\ \A k \in 1..(j - 1) : fields[k].name # fields[i].name
     IN import_primitive(array.children[i], fields[j].ty)]

\* res.child_data().into_iter().map(|xi| make_array(xi.clone())): the
\* children of the struct array from_ffi imported, in their order; from_ffi
\* gave child i the type of the i-th child of the schema struct.
child_data(array, fields) ==
  [i \in 1..Len(array.children) |->
     import_primitive(array.children[i], fields[i].ty)]

\* What RecordBatch::try_new(schema, columns) checks: one column per field,
\* column i of the type of field i, all of one length, and no null in a
\* column whose field is not nullable.
try_new_ok(fields, cols) ==
  /\ Len(cols) = Len(fields)
  /\ cols # <<>>
  /\ \A i \in 1..Len(cols) :
       /\ cols[i].ty = fields[i].ty
       /\ cols[i].len = cols[1].len
       /\ fields[i].nullable \/ cols[i].null_count = 0

ENone == [s \in EStructs |-> FALSE]
EZero == [s \in EStructs |-> 0]

\* The export side while an import is modelled, and the import side while an
\* export is: nothing is in progress.
ToIdle ==
  /\ eKind = "none" /\ eSupported = TRUE /\ eVec = <<>> /\ eDeclared = EmptySchema
  /\ ePc = "idle" /\ eResult = "none"
  /\ eCreated = ENone /\ eSrcRel = ENone /\ eDstAlloc = ENone
  /\ eDstRel = ENone /\ eMoved = ENone /\ eFreed = EZero /\ eDstCalls = EZero
  /\ eTagged = FALSE /\ eNative = "none" /\ eTemp = FALSE
  /\ eBufRc = 0 /\ eBufFreed = FALSE
  /\ eProd = <<>> /\ eProdLive = FALSE /\ eSchema = EmptySchema
  /\ eOut = <<>> /\ eEnds = 0 /\ eFailed = 0 /\ eRelFrom = "none"

\* The struct array behind a RecordBatch: its own length and the length of
\* each child, as the host's array struct states them.
NoShape == [rows |-> 0, cols |-> <<>>]

Shapes == [rows : 0..MaxRows, cols : SeqsUpTo(0..MaxRows, 2)]

\* RecordBatch::try_new(schema, columns)? of the arrow branch: the columns
\* are the children as they are; no column, or columns of different lengths,
\* is an Err.  The row count is the length of the first column.
TryNewOk(shape) ==
  /\ shape.cols # <<>>
  /\ \A i \in 1..Len(shape.cols) : shape.cols[i] = shape.cols[1]

\* RecordBatch::from(StructArray::from(data)) inside the reader's next(): the
\* struct ArrayData is built unchecked, the row count is the struct's own
\* length.  Depending on the arrow release the children become the columns
\* as they are, or each is sliced to the struct's length (which panics on a
\* child that is too short).
StructBatches(shape) ==
  {shape} \cup
  (IF \A i \in 1..Len(shape.cols) : shape.cols[i] >= shape.rows
   THEN {[rows |-> shape.rows,
          cols |-> [i \in 1..Len(shape.cols) |-> shape.rows]]}
   ELSE {})

FromIdle ==
  /\ iTarget = "none" /\ iClasses = {} /\ iSrc = <<>> /\ iSrcErr = FALSE
  /\ iPc = "idle" /\ iBranch = "none" /\ iChecked = FALSE
  /\ iAlloc = NoStruct /\ iRel = NoStruct /\ iPop = NoCount
  /\ iRelCount = NoCount /\ iHolder = [s \in Structs |-> "none"]
  /\ iHostCalls = 0 /\ iAddrs = {} /\ iResult = "none" /\ iRefs = 0
  /\ iReader = "none" /\ iSchemaCalls = 0 /\ iPulls = 0 /\ iGot = <<>>
  /\ iEnds = 0 /\ iSrc0 = <<>> /\ iHostFail = FALSE
  /\ iShape = NoShape /\ iBatch = NoShape /\ iDict = FALSE

\* No round trip is under way.
EmptyStream == [schema |-> <<>>, prod |-> <<>>, release |-> FALSE]

NoReader == [live |-> FALSE, fields |-> <<>>, prod |-> <<>>]

NoArray == PrimitiveArray_from("Int32", <<>>)

RoundIdle ==
  /\ rKind = "none" /\ rArr = NoArray /\ rVec = <<>> /\ rBase = 0
  /\ rPc = "idle" /\ rHostArr = EmptyArray /\ rHostSch = EmptyCSchema
  /\ rHostTag = FALSE /\ rHostStream = EmptyStream /\ rHostOk = TRUE
  /\ rOutArr = NoArray /\ rReader = NoReader /\ rOut = <<>> /\ rEnds = 0
  /\ rRes = "none" /\ rSch = <<>> /\ rOutSch = <<>>

FromInit ==
  /\ ToIdle
  /\ RoundIdle
  /\ iTarget \in Targets
  /\ iClasses \in {c \in SUBSET Tags : Cardinality(c) <= MaxTags}
  /\ iSrc \in IF "nanoarrow_array_stream" \in iClasses
               THEN SeqsUpTo(BatchIds, MaxBatches) ELSE {<<>>}
  /\ iSrcErr \in IF "nanoarrow_array_stream" \in iClasses
                  THEN BOOLEAN ELSE {FALSE}
  /\ iPc = "check"
  /\ iBranch = "none"
  /\ iChecked = FALSE
  /\ iAlloc = NoStruct
  /\ iRel = NoStruct
  /\ iPop = NoCount
  /\ iRelCount = NoCount
  /\ iHolder = [s \in Structs |-> "none"]
  /\ iHostCalls = 0
  /\ iAddrs = {}
  /\ iResult = "none"
  /\ iRefs = 0
  /\ iReader = "none"
  /\ iSchemaCalls = 0
  /\ iPulls = 0
  /\ iGot = <<>>
  /\ iEnds = 0
  /\ iSrc0 = iSrc
  /\ iHostFail = FALSE
  /\ iShape \in IF /\ iTarget = "RecordBatch"
                    /\ \/ "RecordBatch" \in iClasses
                       \/ "nanoarrow_array_stream" \in iClasses /\ iSrc # <<>>
                 THEN Shapes ELSE {NoShape}
  /\ iBatch = NoShape
  /\ iDict \in IF /\ iTarget = "ArrayData"
                   /\ iClasses \cap {"nanoarrow_array", "Array"} # {}
                THEN BOOLEAN ELSE {FALSE}

\* ClassBranch without the second test's early return: whatever is not a
\* nanoarrow object is taken to be the arrow object.
ClassBranchFallthrough(t, classes) ==
  IF inherits(classes, LightTag(t)) THEN "light" ELSE "full"

\* The branch the inherits() tests of from_arrow_robj select.
ClassBranch(t, classes) ==
  IF inherits(classes, LightTag(t)) THEN "light"
  ELSE IF FullTag(t) # NoTag /\ inherits(classes, FullTag(t)) THEN "full"
  ELSE "none"

\* from_arrow_robj, the inherits() tests: an R object of no recognised class
\* returns Err(ParseError) at once.
from_check ==
  /\ iPc = "check"
  /\ iChecked' = TRUE
  /\ iBranch' = ClassBranch(iTarget, iClasses)
  /\ IF iBranch' = "none"
     THEN iResult' = "Err" /\ iPc' = "done"
     ELSE iResult' = iResult /\ iPc' = "alloc"
  /\ UNCHANGED <<iFrame, iBatch, iStream, iMem, iHostCalls, iAddrs, iHostFail>>

\* FFI_Arrow*::empty() for each struct of the branch, and in the arrow branch
\* the lookup of the object's export_to_c method, which panics when absent.
\* An empty struct has a null release field, so the unwinding drops nothing.
from_alloc ==
  /\ iPc = "alloc"
  /\ \E found \in (IF iBranch = "full" THEN BOOLEAN ELSE {TRUE}) :
       /\ iAlloc' = [s \in Structs |-> s \in StructsOf(iTarget, iBranch)]
       /\ iHolder' = [s \in Structs |->
                        IF s \in StructsOf(iTarget, iBranch)
                        THEN "local" ELSE "none"]
       /\ iHostFail' = (iHostFail \/ ~found)
       /\ IF found
          THEN /\ iResult' = iResult
               /\ iPc' = IF iTarget = "ArrayData" /\ iBranch = "light"
                         THEN "infer" ELSE "export"
          ELSE iResult' = "panic" /\ iPc' = "return"
  /\ UNCHANGED <<iFrame, iBatch, iStream, iLog, iBranch, iRel, iPop, iRelCount, iRefs>>

\* ArrayData, nanoarrow branch: nanoarrow::infer_nanoarrow_schema(robj),
\* unwrapped: a missing helper or a failed call panics.
from_infer ==
  /\ iPc = "infer"
  /\ iHostCalls' = iHostCalls + 1
  /\ \E ok \in BOOLEAN :
       /\ iHostFail' = (iHostFail \/ ~ok)
       /\ IF ok THEN iResult' = iResult /\ iPc' = "export"
                ELSE iResult' = "panic" /\ iPc' = "return"
  /\ UNCHANGED <<iFrame, iBatch, iStream, iMem, iBranch, iChecked, iAddrs>>

\* The structs one host export call is given the address of.  The nanoarrow
\* branch of ArrayData makes two calls, the array first; export_to_c of an
\* arrow Array or RecordBatch fills both structs in one call.
ExportSet(t, branch, call) ==
  CASE t = "ArrayData" /\ branch = "light" ->
         IF call = 1 THEN {"array"} ELSE {"schema"}
    [] OTHER -> StructsOf(t, branch)

\* nanoarrow_export(robj, addr) or export_to_c(addr...): the address of each
\* struct goes to the host as text; the host fills the structs or fails, and
\* the Result is discarded (let _ =).  nanoarrow_export panics when the
\* nanoarrow helper cannot be found.
host_export(call) ==
  \E out \in {"ok", "fail"} \cup (IF iBranch = "light" THEN {"absent"} ELSE {}) :
    LET S == ExportSet(iTarget, iBranch, call) IN
    /\ iHostFail' = (iHostFail \/ out # "ok")
    /\ IF out = "absent"
       THEN /\ iResult' = "panic" /\ iPc' = "return"
            /\ UNCHANGED <<iHostCalls, iAddrs, iRel, iPop>>
       ELSE /\ iHostCalls' = iHostCalls + 1
            /\ iAddrs' = iAddrs \cup S
            /\ iRel' = IF out = "ok" THEN FillRel(iRel, S) ELSE iRel
            /\ iPop' = IF out = "ok" THEN FillPop(iPop, S) ELSE iPop
            /\ iResult' = iResult
            /\ iPc' = IF iTarget = "ArrayData" /\ iBranch = "light" /\ call = 1
                      THEN "export2" ELSE "convert"
    /\ UNCHANGED <<iFrame, iBatch, iStream, iBranch, iChecked, iAlloc, iRelCount,
                   iHolder, iRefs>>

from_export == iPc = "export" /\ host_export(1)

from_export2 == iPc = "export2" /\ host_export(2)

\* What reading a struct the host left empty can do: Field/DataType/Schema
\* ::try_from and ffi::from_ffi read the format string of the schema struct.
UnfilledOutcomes == {"panic", "Err"}

\* Field / DataType / Schema ::try_from(&c_schema): the schema struct stays a
\* local and is dropped when from_arrow_robj returns.
convert_schema ==
  /\ iTarget \in {"Field", "DataType", "Schema"}
  /\ \E out \in (IF iRel["schema"] THEN {"Ok", "Err"} ELSE UnfilledOutcomes) :
       /\ iResult' = out
       /\ iHostFail' = (iHostFail \/ out # "Ok")
  /\ iPc' = "return"
  /\ UNCHANGED <<iFrame, iBatch, iStream, iMem, iLog, iBranch>>

\* ffi::from_ffi(array, &schema): the array struct moves into the call; on
\* success the buffers of the returned ArrayData keep it alive, otherwise it
\* is dropped there.  from_ffi imports a descriptor that carries a dictionary
\* like any other (as dictionary-typed ArrayData), and from_arrow_robj has no
\* test of its own for one.  The arrow RecordBatch branch then builds the batch from
\* the children (Schema::try_from, make_array, RecordBatch::try_new), which
\* share the parent's struct.
convert_array ==
  /\ \/ iTarget = "ArrayData"
     \/ iTarget = "RecordBatch" /\ iBranch = "full"
  /\ \E out \in (IF iRel["array"] /\ iRel["schema"]
                 THEN IF iTarget = "RecordBatch" /\ ~TryNewOk(iShape)
                      THEN {"Err"} ELSE {"Ok", "Err"}
                 ELSE UnfilledOutcomes) :
       /\ iResult' = out
       /\ iBatch' = IF out = "Ok" /\ iTarget = "RecordBatch"
                    THEN [rows |-> iShape.cols[1], cols |-> iShape.cols]
                    ELSE iBatch
       /\ iHostFail' = (iHostFail \/ out # "Ok")
       /\ IF out = "Ok"
          THEN /\ iHolder' = [iHolder EXCEPT !["array"] = "native"]
               /\ iRefs' = 1
               /\ UNCHANGED <<iRel, iRelCount>>
          ELSE /\ iHolder' = DropHolder(iHolder, {"array"})
               /\ iRelCount' = DropCount(iRel, iRelCount, {"array"})
               /\ iRel' = DropRel(iRel, {"array"})
               /\ iRefs' = iRefs
  /\ iPc' = "return"
  /\ UNCHANGED <<iFrame, iStream, iLog, iBranch, iAlloc, iPop>>

\* ArrowArrayStreamReader::try_new(stream): the stream struct moves into the
\* reader.  A stream with a null release field is refused; otherwise
\* get_schema is called once and its schema kept.  On failure the stream is
\* dropped.
convert_stream ==
  /\ \/ iTarget = "ArrowArrayStreamReader"
     \/ iTarget = "RecordBatch" /\ iBranch = "light"
  /\ \E out \in (IF iRel["stream"] THEN {"Ok", "Err"} ELSE {"Err"}) :
       /\ iHostFail' = (iHostFail \/ out # "Ok")
       /\ iSchemaCalls' = IF iRel["stream"] THEN iSchemaCalls + 1
                          ELSE iSchemaCalls
       /\ IF out = "Ok"
          THEN /\ iHolder' = [iHolder EXCEPT !["stream"] = "reader"]
               /\ iReader' = "live"
               /\ UNCHANGED <<iRel, iRelCount>>
               /\ IF iTarget = "RecordBatch"
                  THEN iResult' = iResult /\ iPc' = "pull"
                  ELSE iResult' = "Ok" /\ iPc' = "return"
          ELSE /\ iHolder' = DropHolder(iHolder, {"stream"})
               /\ iRelCount' = DropCount(iRel, iRelCount, {"stream"})
               /\ iRel' = DropRel(iRel, {"stream"})
               /\ iReader' = iReader
               /\ iResult' = "Err" /\ iPc' = "return"
  /\ UNCHANGED <<iFrame, iBatch, iLog, iBranch, iAlloc, iPop, iRefs, iSrc, iSrcErr,
                 iPulls, iGot, iEnds>>

from_convert ==
  /\ iPc = "convert"
  /\ (convert_schema \/ convert_array \/ convert_stream)

\* One next() of ArrowArrayStreamReader: get_next fills a fresh array struct.
\* "err": get_next reports a failure; "end": the struct comes back released;
\* "bad": the array does not convert under the stream's schema; otherwise
\* the batch at the head of the source.
NextOutcomes ==
  IF iSrcErr THEN {"err"}
  ELSE IF iSrc = <<>> THEN {"end"}
  ELSE {"batch", "bad"}

\* nth0 taking the last chunk instead of the first.
nthLast(src) == src[Len(src)]

\* Iterator::nth(0) over the reader: the first chunk.
nth0(src) == Head(src)

\* next() fetching the schema again for the chunk it converts.
NextSchemaRefetched(n) == n + 1

\* The get_schema calls made once the reader's next() has run: next() calls
\* get_next only and converts the chunk with the schema the reader has kept
\* since try_new.
NextSchemaCalls(n) == n

\* RecordBatch, nanoarrow branch:
\*   res.into_iter().map(|xi| xi.unwrap()).nth(0).unwrap()
\* nth(0) calls next() once; an error or the end of the stream panics in an
\* unwrap.  The reader is a temporary of the statement and is dropped at its
\* end, which releases the stream.
from_pull ==
  /\ iPc = "pull"
  /\ iPulls' = iPulls + 1
  /\ \E out \in NextOutcomes :
       /\ iHostFail' = (iHostFail \/ out \in {"err", "bad"})
       /\ iSrcErr' = FALSE
       /\ iSrc' = IF out \in {"batch", "bad"} THEN Tail(iSrc) ELSE iSrc
       /\ iAlloc' = [iAlloc EXCEPT !["pulled"] = TRUE]
       /\ iPop' = IF out \in {"batch", "bad"}
                  THEN FillPop(iPop, {"pulled"}) ELSE iPop
       /\ IF out = "batch"
          THEN /\ iGot' = Append(iGot, nth0(iSrc))
               /\ iBatch' \in StructBatches(iShape)
               /\ iResult' = "Ok"
               /\ iRefs' = 1
               /\ iRel' = DropRel(FillRel(iRel, {"pulled"}), {"stream"})
               /\ iRelCount' = DropCount(iRel, iRelCount, {"stream"})
               /\ iHolder' = [DropHolder(iHolder, {"stream"})
                                EXCEPT !["pulled"] = "native"]
          ELSE /\ iGot' = iGot
               /\ iBatch' = iBatch
               /\ iResult' = "panic"
               /\ iRefs' = iRefs
               /\ iRel' = DropRel(iRel, {"stream", "pulled"})
               /\ iRelCount' =
                    DropCount(IF out = "bad" THEN FillRel(iRel, {"pulled"})
                              ELSE iRel, iRelCount, {"stream", "pulled"})
               /\ iHolder' = DropHolder(iHolder, {"stream", "pulled"})
  /\ iReader' = "dropped"
  /\ iPc' = "return"
  /\ iSchemaCalls' = NextSchemaCalls(iSchemaCalls)
  /\ UNCHANGED <<iFrame, iLog, iBranch, iEnds>>

\* from_arrow_robj returns (or unwinds after a panic): its locals are dropped.
from_return ==
  /\ iPc = "return"
  /\ iPc' = "done"
  /\ iRelCount' = DropCount(iRel, iRelCount, Locals)
  /\ iRel' = DropRel(iRel, Locals)
  /\ iHolder' = DropHolder(iHolder, Locals)
  /\ UNCHANGED <<iFrame, iBatch, iStream, iLog, iBranch, iResult, iHostFail, iAlloc,
                 iPop, iRefs>>

\* The caller clones the returned ArrayData / RecordBatch: the clone shares
\* the buffers, and with them the imported array struct.
native_clone ==
  /\ iPc = "done"
  /\ iRefs \in 1..(MaxRefs - 1)
  /\ iRefs' = iRefs + 1
  /\ UNCHANGED <<iFrame, iBatch, iStream, iLog, iBranch, iResult, iHostFail, iPc,
                 iAlloc, iRel, iPop, iRelCount, iHolder>>

\* The caller drops one reference; the last one drops the Arc that owns the
\* imported array struct.
native_drop ==
  /\ iPc = "done"
  /\ iRefs > 0
  /\ iRefs' = iRefs - 1
  /\ IF iRefs = 1
     THEN /\ iRelCount' = DropCount(iRel, iRelCount, Natives)
          /\ iRel' = DropRel(iRel, Natives)
          /\ iHolder' = DropHolder(iHolder, Natives)
     ELSE UNCHANGED <<iRel, iRelCount, iHolder>>
  /\ UNCHANGED <<iFrame, iBatch, iStream, iLog, iBranch, iResult, iHostFail, iPc,
                 iAlloc, iPop>>

\* for chunk in rb { ... }: one next() of the returned reader, once the
\* previous chunk has been dropped at the end of the loop body.
reader_next ==
  /\ iPc = "done"
  /\ iReader = "live"
  /\ iRefs = 0
  /\ iEnds < MaxEnds
  /\ iPulls' = iPulls + 1
  /\ \E out \in NextOutcomes :
       /\ iHostFail' = (iHostFail \/ out \in {"err", "bad"})
       /\ iSrcErr' = FALSE
       /\ iSrc' = IF out \in {"batch", "bad"} THEN Tail(iSrc) ELSE iSrc
       /\ iAlloc' = [iAlloc EXCEPT !["pulled"] = TRUE]
       /\ iPop' = IF out \in {"batch", "bad"}
                  THEN FillPop(iPop, {"pulled"}) ELSE iPop
       /\ iEnds' = IF out = "end" THEN iEnds + 1 ELSE iEnds
       /\ IF out = "batch"
          THEN /\ iGot' = Append(iGot, Head(iSrc))
               /\ iRefs' = 1
               /\ iRel' = FillRel(iRel, {"pulled"})
               /\ iHolder' = [iHolder EXCEPT !["pulled"] = "native"]
               /\ iRelCount' = iRelCount
          ELSE /\ iGot' = iGot
               /\ iRefs' = iRefs
               /\ iRel' = iRel
               /\ iHolder' = iHolder
               /\ iRelCount' =
                    IF out = "bad"
                    THEN [iRelCount EXCEPT !["pulled"] = @ + 1]
                    ELSE iRelCount
  /\ iSchemaCalls' = NextSchemaCalls(iSchemaCalls)
  /\ UNCHANGED <<iFrame, iBatch, iLog, iBranch, iResult, iPc, iReader>>

\* The reader is dropped: Drop for FFI_ArrowArrayStream releases the stream.
reader_drop ==
  /\ iPc = "done"
  /\ iReader = "live"
  /\ iReader' = "dropped"
  /\ iRelCount' = DropCount(iRel, iRelCount, {"stream"})
  /\ iRel' = DropRel(iRel, {"stream"})
  /\ iHolder' = DropHolder(iHolder, {"stream"})
  /\ UNCHANGED <<iFrame, iBatch, iLog, iBranch, iResult, iHostFail, iPc, iAlloc,
                 iPop, iRefs, iSrc, iSrcErr, iSchemaCalls, iPulls, iGot, iEnds>>

FromNext ==
  \/ from_check
  \/ from_alloc
  \/ from_infer
  \/ from_export
  \/ from_export2
  \/ from_convert
  \/ from_pull
  \/ from_return
  \/ native_clone
  \/ native_drop
  \/ reader_next
  \/ reader_drop

\* --------------------------------------------------- to.rs: operations
\* The values to_arrow_robj / into_arrow_robj can be called on.  A
\* RecordBatch is one batch; a Vec<RecordBatch> any number; a reader declares
\* its own schema.
ToInit ==
  /\ FromIdle
  /\ RoundIdle
  /\ eKind \in Kinds
  /\ eSupported \in IF eKind \in StreamKinds THEN {TRUE} ELSE BOOLEAN
  /\ eVec \in CASE eKind = "RecordBatch" -> [1..1 -> EBatches]
                [] eKind \in StreamKinds -> SeqsUpTo(EBatches, MaxBatches)
                [] OTHER -> {<<>>}
  /\ eDeclared \in IF eKind \in {"ArrowArrayStreamReader", "BoxReader",
                                  "RecordBatchIterator"}
                    THEN SchemaIds ELSE {EmptySchema}
  /\ ePc = "start" /\ eResult = "none"
  /\ eCreated = ENone /\ eSrcRel = ENone /\ eDstAlloc = ENone
  /\ eDstRel = ENone /\ eMoved = ENone /\ eFreed = EZero /\ eDstCalls = EZero
  /\ eTagged = FALSE
  /\ eNative = IF eKind \in ArrayKinds THEN "alive" ELSE "none"
  /\ eTemp = FALSE
  /\ eBufRc = IF eKind \in ArrayKinds THEN 1 ELSE 0
  /\ eBufFreed = FALSE
  /\ eProd = <<>> /\ eProdLive = FALSE /\ eSchema = EmptySchema
  /\ eOut = <<>> /\ eEnds = 0 /\ eFailed = 0 /\ eRelFrom = "none"

\* StreamSchema when the empty vector is given the schema of a batch.
StreamSchemaOfBatch(k, vec, declared) ==
  CASE k = "RecordBatch" -> vec[1].sch
    [] k = "VecRecordBatch" ->
         IF vec = <<>> THEN "s1" ELSE vec[1].sch
    [] OTHER -> declared

\* The schema the exported stream declares: a RecordBatch its own, a
\* Vec<RecordBatch> that of its first batch or the empty schema, a reader
\* the one it was built with.
StreamSchema(k, vec, declared) ==
  CASE k = "RecordBatch" -> vec[1].sch
    [] k = "VecRecordBatch" ->
         IF vec = <<>> THEN EmptySchema ELSE vec[1].sch
    [] OTHER -> declared

\* FFI_ArrowArray::new borrowing the buffers instead of cloning them.
BufRcBorrowed(rc) == rc

\* FFI_ArrowArray::new(data) clones each Buffer of the array into the
\* struct's private data: one more reference to the allocation.  The schema
\* struct is built from the data type alone and holds none.
BufRcExported(rc) == rc + 1

\* The references left after n holders let go, and whether that frees the
\* allocation.
RcAfter(rc, n) == IF rc > n THEN rc - n ELSE 0
FreedAfter(freed, rc, n) == freed \/ (n > 0 /\ rc <= n)

\* to_ffi(self) / FFI_ArrowSchema::try_from(self) / FFI_ArrowArrayStream::new:
\* the exporter's structs are created as locals, each with a release
\* callback.  A type with no C-ABI format panics in expect().
\* PrimitiveArray::to_arrow_robj first takes self.into_data(), a clone that
\* shares the buffers.
to_start ==
  /\ ePc = "start"
  /\ eTemp' = (eKind = "PrimitiveArray")
  /\ IF ~eSupported
     THEN /\ eResult' = "panic" /\ ePc' = "return"
          /\ eBufRc' = IF eKind = "PrimitiveArray" THEN eBufRc + 1 ELSE eBufRc
          /\ UNCHANGED <<eCreated, eSrcRel, eProd, eProdLive, eSchema>>
     ELSE /\ eResult' = eResult /\ ePc' = "alloc1"
          /\ eCreated' = [s \in EStructs |-> s \in CreatedBy(eKind)]
          /\ eSrcRel' = [s \in EStructs |-> s \in CreatedBy(eKind)]
          /\ eBufRc' =
               IF eKind \in ArrayKinds
               THEN BufRcExported(IF eKind = "PrimitiveArray"
                                  THEN eBufRc + 1 ELSE eBufRc)
               ELSE eBufRc
          /\ IF eKind \in StreamKinds
             THEN /\ eProd' = eVec
                  /\ eProdLive' = TRUE
                  /\ eSchema' = StreamSchema(eKind, eVec, eDeclared)
             ELSE UNCHANGED <<eProd, eProdLive, eSchema>>
  /\ UNCHANGED <<eFrame, eDstAlloc, eDstRel, eMoved, eFreed, eDstCalls,
                 eTagged, eNative, eBufFreed, eOut, eEnds, eFailed, eRelFrom>>

\* The struct the n-th allocate_* / move_pointer call of an impl is about:
\* ArrayData allocates and moves the array first, then the schema.
NthStruct(k, n) ==
  CASE k \in ArrayKinds -> IF n = 1 THEN "array" ELSE "schema"
    [] k \in SchemaKinds -> "schema"
    [] OTHER -> "stream"

\* What a call of a nanoarrow helper through R!(..).expect(..).call(..) can
\* do: succeed, fail with an R error (Err), or find no helper (panic).
HostOutcomes == {"ok", "fail", "absent"}

\* allocate_array / allocate_schema / allocate_array_stream (pairlist!())?:
\* an Err returns at once.
to_alloc(n) ==
  LET s == NthStruct(eKind, n) IN
  \E out \in HostOutcomes :
    /\ eDstAlloc' = [eDstAlloc EXCEPT ![s] = (out = "ok")]
    /\ CASE out = "ok" ->
             /\ eResult' = eResult
             /\ ePc' = IF eKind \in ArrayKinds /\ n = 1
                       THEN "alloc2" ELSE "move1"
         [] out = "fail" -> eResult' = "Err" /\ ePc' = "return"
         [] OTHER -> eResult' = "panic" /\ ePc' = "return"
    /\ UNCHANGED <<eFrame, eCreated, eSrcRel, eDstRel, eMoved, eFreed,
                   eDstCalls, eTagged, eBuf, eStream>>

to_alloc1 == ePc = "alloc1" /\ to_alloc(1)

to_alloc2 == ePc = "alloc2" /\ to_alloc(2)

\* nanoarrow_pointer_move copying the struct without clearing the source.
MoveSrcKept(rel) == rel

\* nanoarrow_pointer_move(addr, dst): the struct at addr is copied into the
\* receiver's struct and the source's release field is set to null.
MoveSrcRel(rel) == FALSE

\* let _ = move_pointer(pairlist!(addr, &to_fill)): the Result is discarded,
\* so a failed move goes on with the receiver struct empty.
to_move(n) ==
  LET s == NthStruct(eKind, n) IN
  \E out \in HostOutcomes :
    /\ IF out = "ok"
       THEN /\ eMoved' = [eMoved EXCEPT ![s] = TRUE]
            /\ eDstRel' = [eDstRel EXCEPT ![s] = eSrcRel[s]]
            /\ eSrcRel' = [eSrcRel EXCEPT ![s] = MoveSrcRel(eSrcRel[s])]
       ELSE UNCHANGED <<eMoved, eDstRel, eSrcRel>>
    /\ IF out = "absent"
       THEN eResult' = "panic" /\ ePc' = "return"
       ELSE /\ eResult' = IF eKind \in ArrayKinds THEN eResult ELSE "Ok"
            /\ ePc' = IF eKind \in ArrayKinds
                      THEN (IF n = 1 THEN "move2" ELSE "setschema")
                      ELSE "return"
    /\ UNCHANGED <<eFrame, eCreated, eDstAlloc, eFreed, eDstCalls, eTagged,
                   eBuf, eStream>>

to_move1 == ePc = "move1" /\ to_move(1)

to_move2 == ePc = "move2" /\ to_move(2)

\* set_array_schema(&arr_to_fill, &schema_to_fill): the Result is discarded;
\* then Ok(arr_to_fill).
to_set_schema ==
  /\ ePc = "setschema"
  /\ \E out \in HostOutcomes :
       /\ eTagged' = (out = "ok")
       /\ eResult' = IF out = "absent" THEN "panic" ELSE "Ok"
  /\ ePc' = "return"
  /\ UNCHANGED <<eFrame, eStructVars, eBuf, eStream>>

\* A release callback that frees but leaves the release field set.
ReleaseKeeps(rel) == rel

\* The release callback the exported struct carries: it frees the private
\* data and sets the struct's release field to null.
ReleaseClears(rel) == FALSE

\* ToDrop when the exporter leaks its structs instead of dropping them.
ToDropForgotten == {}

\* The exporter's locals, dropped when to_arrow_robj returns or unwinds.
ToDrop == {s \in EStructs : eCreated[s]}

\* Where the live content of an exported struct is: in the local of
\* to_arrow_robj that to_ffi / try_from / FFI_ArrowArrayStream::new was bound
\* to (let (ffi_array, ffi_schema) = ..., let mut stream = ...: a slot of the
\* call's frame, whose address is taken with `as usize`), or in the struct
\* the host allocated, once nanoarrow_pointer_move has copied it there.
Place(s) ==
  IF eCreated[s] /\ eSrcRel[s] THEN "local"
  ELSE IF eDstRel[s] THEN "receiver"
  ELSE "none"

\* The state of the exported stream (spec 4.4), read off the struct and the
\* pulls made.
StreamState ==
  IF ~eCreated["stream"] THEN "none"
  ELSE IF ~(eSrcRel["stream"] \/ eDstRel["stream"]) THEN "Released"
  ELSE IF eEnds > 0 THEN "Exhausted"
  ELSE IF eOut # <<>> THEN "Iterating"
  ELSE "Created"

\* to_arrow_robj returns: Drop runs on each local struct and invokes its
\* release callback when the release field is non-null.  Releasing the
\* array drops its clones of the buffers; releasing the stream drops the
\* reader.  The ArrayData made by into_data is dropped as well.
to_return ==
  /\ ePc = "return"
  /\ ePc' = "done"
  /\ LET rel == {s \in ToDrop : eSrcRel[s]}
         n == (IF "array" \in rel THEN 1 ELSE 0) + (IF eTemp THEN 1 ELSE 0)
     IN /\ eFreed' = [s \in EStructs |->
                        IF s \in rel THEN eFreed[s] + 1 ELSE eFreed[s]]
        /\ eSrcRel' = [s \in EStructs |->
                         IF s \in rel THEN ReleaseClears(eSrcRel[s])
                         ELSE eSrcRel[s]]
        /\ eBufRc' = RcAfter(eBufRc, n)
        /\ eBufFreed' = FreedAfter(eBufFreed, eBufRc, n)
        /\ eProdLive' = (eProdLive /\ "stream" \notin rel)
  /\ eTemp' = FALSE
  /\ UNCHANGED <<eFrame, eResult, eCreated, eDstAlloc, eDstRel, eMoved,
                 eDstCalls, eTagged, eNative, eProd, eSchema, eOut, eEnds,
                 eFailed, eRelFrom>>

\* The receiver invokes release on a struct it allocated (an explicit
\* release, or the finalizer of the R object): nanoarrow calls the callback
\* only when the release field is non-null, and the callback sets it to
\* null.
host_release ==
  /\ ePc = "done"
  /\ \E s \in EStructs :
       /\ eDstAlloc[s]
       /\ eDstCalls[s] < MaxCalls
       /\ eDstCalls' = [eDstCalls EXCEPT ![s] = @ + 1]
       /\ IF eDstRel[s]
          THEN /\ eFreed' = [eFreed EXCEPT ![s] = @ + 1]
               /\ eDstRel' = [eDstRel EXCEPT ![s] = ReleaseClears(@)]
               /\ eBufRc' = IF s = "array" THEN RcAfter(eBufRc, 1) ELSE eBufRc
               /\ eBufFreed' = IF s = "array"
                                THEN FreedAfter(eBufFreed, eBufRc, 1)
                                ELSE eBufFreed
               /\ eProdLive' = (eProdLive /\ s # "stream")
               /\ eRelFrom' = IF s = "stream" THEN StreamState ELSE eRelFrom
          ELSE UNCHANGED <<eFreed, eDstRel, eBufRc, eBufFreed, eProdLive,
                           eRelFrom>>
  /\ UNCHANGED <<eFrame, ePc, eResult, eCreated, eSrcRel, eDstAlloc, eMoved,
                 eTagged, eNative, eTemp, eProd, eSchema, eOut, eEnds, eFailed>>

\* The receiver pulls from a live stream: get_next yields the reader's next
\* batch, or the end sentinel once the reader is exhausted.
host_pull ==
  /\ ePc = "done"
  /\ eDstAlloc["stream"]
  /\ eDstRel["stream"]
  /\ IF eProd = <<>>
     THEN /\ eEnds < MaxEnds
          /\ eEnds' = eEnds + 1
          /\ UNCHANGED <<eProd, eOut>>
     ELSE /\ eOut' = Append(eOut, Head(eProd))
          /\ eProd' = Tail(eProd)
          /\ eEnds' = eEnds
  /\ UNCHANGED <<eFrame, ePc, eResult, eStructVars, eTagged, eBuf, eProdLive,
                 eSchema, eFailed, eRelFrom>>

\* The receiver pulls from a stream whose release field is null: release
\* cleared get_next with it, and nanoarrow refuses the struct.
host_pull_released ==
  /\ ePc = "done"
  /\ eDstAlloc["stream"]
  /\ ~eDstRel["stream"]
  /\ eFailed < MaxEnds
  /\ eFailed' = eFailed + 1
  /\ UNCHANGED <<eFrame, ePc, eResult, eStructVars, eTagged, eBuf, eProd,
                 eProdLive, eSchema, eOut, eEnds, eRelFrom>>

\* The caller drops the array it exported by reference.
caller_drop ==
  /\ ePc = "done"
  /\ eNative = "alive"
  /\ eNative' = "dropped"
  /\ eBufRc' = RcAfter(eBufRc, 1)
  /\ eBufFreed' = FreedAfter(eBufFreed, eBufRc, 1)
  /\ UNCHANGED <<eFrame, ePc, eResult, eStructVars, eTagged, eTemp, eStream>>

ToNext ==
  \/ to_start
  \/ to_alloc1
  \/ to_alloc2
  \/ to_move1
  \/ to_move2
  \/ to_set_schema
  \/ to_return
  \/ host_release
  \/ host_pull
  \/ host_pull_released
  \/ caller_drop

\* ------------------------------------------------------- round trips
\* usize::to_string in base 16.
to_string_hex(addr) ==
  LET RECURSIVE Hex(_)
      Hex(n) == IF n < 16 THEN <<n>> ELSE Append(Hex(n \div 16), n % 16)
  IN Hex(addr)

\* c_array_ptr.to_string(): the address of a struct as decimal text, the
\* form in which every address is handed to the host.
to_string(addr) ==
  LET RECURSIVE Dec(_)
      Dec(n) == IF n < 10 THEN <<n>> ELSE Append(Dec(n \div 10), n % 10)
  IN Dec(addr)

\* The host reads the text back as a decimal address.
RECURSIVE ParseAddr(_)
ParseAddr(text) ==
  IF text = <<>> THEN 0
  ELSE 10 * ParseAddr(SubSeq(text, 1, Len(text) - 1)) + text[Len(text)]

\* The host reaches the struct at addr through the text it was given.
Reaches(addr) == ParseAddr(to_string(addr)) = addr

\* Addresses a frame's first local struct can have.
BaseAddrs == {24, 4096}

RECURSIVE Reverse(_)
Reverse(q) == IF q = <<>> THEN <<>> ELSE Append(Reverse(Tail(q)), Head(q))

\* The schemas and the columns of the batches of the examples
\* (test_record_batch: {id: [1, 2, 3, 4, 5]}).
RoundSchemas ==
  { <<FieldOf("id", "Int32", FALSE)>>,
    <<FieldOf("id", "Int32", TRUE), FieldOf("x", "Float64", TRUE)>>,
    <<FieldOf("a", "Float64", TRUE), FieldOf("a", "Int32", TRUE)>> }

BatchCols ==
  { <<Some(1), Some(2), Some(3), Some(4), Some(5)>>, <<Some(258)>>, <<>>,
    <<Some(1), None>> }

\* The batches of one schema: RecordBatch::try_new refuses a null in a
\* column whose field is not nullable.
Batches(fields) ==
  LET cols == {c \in BatchCols :
                 \A i \in 1..Len(c) : c[i].some \/ \A f \in 1..Len(fields) :
                                                      fields[f].nullable}
  IN { BatchOf(fields,
               [i \in 1..Len(fields) |->
                  PrimitiveArray_from(fields[i].ty,
                                      IF i = 1 THEN c ELSE Reverse(c))])
       : c \in cols }

\* The native arrays: every primitive type, every content up to MaxLen
\* elements, whole or sliced.
Arrays ==
  UNION { { slice(PrimitiveArray_from(ty, opts), off, Len(opts) - off)
            : off \in 0..(IF Len(opts) < MaxOffset THEN Len(opts)
                          ELSE MaxOffset) }
          : ty \in PrimTypes, opts \in SeqsUpTo(Opt, MaxLen) }

\* The format string of each data type of the examples (test_schema:
\* Date64, Int64, Boolean) and of the nested types.
SchemaFormats ==
  { <<"Date64", "tdm">>, <<"Int64", "l">>, <<"Boolean", "b">>,
    <<"Struct", "+s">>, <<"List", "+l">> }

\* The data types nested at most d deep: a data type is its kind and its
\* child fields (none for a primitive, the item for a list, the fields in
\* order for a struct).
RECURSIVE DataTypes(_)
DataTypes(d) ==
  LET prim(k) == [kind |-> k, children |-> <<>>]
      leaves == {prim("Date64"), prim("Int64"), prim("Boolean")}
      inner == {FieldOf(n, ty, nl) :
                  n \in {"a", "b"}, ty \in DataTypes(d - 1), nl \in BOOLEAN}
      last == {FieldOf("a", prim("Int64"), TRUE),
               FieldOf("b", prim("Boolean"), FALSE)}
  IN IF d = 0 THEN leaves
     ELSE leaves \cup {[kind |-> "Struct", children |-> <<>>]}
          \cup {[kind |-> "List", children |-> <<f>>] : f \in inner}
          \cup {[kind |-> "Struct", children |-> <<f>>] : f \in inner}
          \cup {[kind |-> "Struct", children |-> <<f, g>>] :
                  f \in inner, g \in last}

\* The native values of each kind: a DataType, a Field of any name and
\* nullability, a Schema (its fields in order).
SchemaValues(k) ==
  CASE k = "DataType" -> DataTypes(MaxDepth)
    [] k = "Field" -> {FieldOf(n, ty, nl) : n \in {"a", "b"},
                         ty \in DataTypes(MaxDepth), nl \in BOOLEAN}
    [] k = "Schema" -> {ty.children : ty \in {t \in DataTypes(MaxDepth) :
                                                t.kind = "Struct"}}
    [] OTHER -> {<<>>}

\* FFI_ArrowSchema::try_from with the nullable flag of the field left out.
RECURSIVE ffi_schema_of(_, _, _)
ffi_schema_flagless(ty, name, nullable) ==
  [format |-> (CHOOSE p \in SchemaFormats : p[1] = ty.kind)[2],
   name |-> name,
   nullable |-> FALSE,
   children |-> [i \in 1..Len(ty.children) |->
                   ffi_schema_of(ty.children[i].ty, ty.children[i].name,
                                 ty.children[i].nullable)],
   release |-> TRUE]

\* FFI_ArrowSchema::try_from(self): a DataType gives its format string and
\* one child struct per child field; a Field adds its name and its nullable
\* flag; a Schema is exported as the struct type of its fields.
ffi_schema_of(ty, name, nullable) ==
  [format |-> (CHOOSE p \in SchemaFormats : p[1] = ty.kind)[2],
   name |-> name,
   nullable |-> nullable,
   children |-> [i \in 1..Len(ty.children) |->
                   ffi_schema_of(ty.children[i].ty, ty.children[i].name,
                                 ty.children[i].nullable)],
   release |-> TRUE]

\* Field::try_from(&c_schema): the data type is parsed from the format
\* string (DataType::try_from), its child fields from the children in
\* order; a format string that names no data type gives "unsupported".
RECURSIVE Field_try_from(_)
Field_try_from(c) ==
  LET kind == IF \E p \in SchemaFormats : p[2] = c.format
              THEN (CHOOSE p \in SchemaFormats : p[2] = c.format)[1]
              ELSE "unsupported"
  IN FieldOf(c.name,
             [kind |-> kind,
              children |-> [i \in 1..Len(c.children) |->
                              Field_try_from(c.children[i])]],
             c.nullable)

\* A format string in the struct or below it names no data type.
RECURSIVE Unparsed(_)
Unparsed(f) ==
  \/ f.ty.kind = "unsupported"
  \/ \E i \in 1..Len(f.ty.children) : Unparsed(f.ty.children[i])

RoundInit ==
  /\ ToIdle
  /\ FromIdle
  /\ rKind \in {"array", "batch", "vec", "full"} \cup SchemaKinds
  /\ rArr \in IF rKind = "array" THEN Arrays ELSE {NoArray}
  /\ rSch \in SchemaValues(rKind)
  /\ \E fields \in RoundSchemas :
       rVec \in CASE rKind \in {"batch", "full"} -> [1..1 -> Batches(fields)]
                  [] rKind = "vec" -> SeqsUpTo(Batches(fields), MaxBatches)
                  [] OTHER -> {<<>>}
  /\ rBase \in BaseAddrs
  /\ rPc = "start" /\ rHostArr = EmptyArray /\ rHostSch = EmptyCSchema
  /\ rHostTag = FALSE /\ rHostStream = EmptyStream /\ rHostOk = TRUE
  /\ rOutArr = NoArray /\ rReader = NoReader /\ rOut = <<>> /\ rEnds = 0
  /\ rRes = "none" /\ rOutSch = <<>>

rIdle == <<fromVars, toVars>>

\* ArrayData::to_arrow_robj (PrimitiveArray::to_arrow_robj passes its data):
\* to_ffi into two locals, two receiver structs allocated (a failure is
\* returned), each local moved by the text of its address, the array tagged
\* with the schema; what the host calls return is discarded.
round_export_array ==
  /\ rKind = "array" /\ rPc = "start"
  /\ \E okAlloc, okA, okS, okT \in BOOLEAN :
       LET c == to_ffi(rArr)
           gotA == okA /\ Reaches(rBase)
           gotS == okS /\ Reaches(rBase + 1)
       IN IF ~okAlloc
          THEN /\ rRes' = "Err" /\ rPc' = "done" /\ rHostOk' = FALSE
               /\ UNCHANGED <<rHostArr, rHostSch, rHostTag>>
          ELSE /\ rHostArr' = IF gotA THEN c.array ELSE EmptyArray
               /\ rHostSch' = IF gotS THEN c.schema ELSE EmptyCSchema
               /\ rHostTag' = (okT /\ gotA /\ gotS)
               /\ rHostOk' = (okA /\ okS /\ okT)
               /\ rRes' = "Ok" /\ rPc' = "exported"
  /\ UNCHANGED <<rKind, rArr, rVec, rBase, rHostStream, rOutArr, rReader,
                 rOut, rEnds, rIdle, rSch, rOutSch>>

\* A stream over the first batch only.
stream_of_first(vec) ==
  IF vec = <<>> THEN [schema |-> <<>>, prod |-> <<>>, release |-> TRUE]
  ELSE [schema |-> vec[1].schema, prod |-> <<vec[1]>>, release |-> TRUE]

\* Vec<RecordBatch>::into_arrow_robj: the stream is a RecordBatchIterator
\* over the vector with the schema of the first batch, over nothing with the
\* empty schema when the vector is empty.  RecordBatch::to_arrow_robj is the
\* same over vec![Ok(self.clone())] with self.schema().
stream_of(vec) ==
  IF vec = <<>> THEN [schema |-> <<>>, prod |-> <<>>, release |-> TRUE]
  ELSE [schema |-> vec[1].schema, prod |-> vec, release |-> TRUE]

\* RecordBatch::to_arrow_robj / Vec<RecordBatch>::into_arrow_robj: the
\* stream struct is built in a local, a receiver allocated (a failure is
\* returned) and the local moved by the text of its address.
round_export_stream ==
  /\ rKind \in {"batch", "vec"} /\ rPc = "start"
  /\ \E okAlloc, okM \in BOOLEAN :
       IF ~okAlloc
       THEN /\ rRes' = "Err" /\ rPc' = "done" /\ rHostOk' = FALSE
            /\ UNCHANGED rHostStream
       ELSE /\ rHostStream' = IF okM /\ Reaches(rBase) THEN stream_of(rVec)
                              ELSE EmptyStream
            /\ rHostOk' = okM
            /\ rRes' = "Ok" /\ rPc' = "exported"
  /\ UNCHANGED <<rKind, rArr, rVec, rBase, rHostArr, rHostSch, rHostTag,
                 rOutArr, rReader, rOut, rEnds, rIdle, rSch, rOutSch>>

\* ArrayData::from_arrow_robj on a nanoarrow_array: the schema is inferred
\* from the handle (a failure panics), the array and the schema are exported
\* into two empty locals by the text of their addresses, results discarded,
\* and from_ffi consumes the locals.
round_import_array ==
  /\ rKind = "array" /\ rPc = "exported"
  /\ \E okI, okA, okS \in BOOLEAN :
       LET array == IF okA /\ Reaches(rBase) THEN rHostArr ELSE EmptyArray
           schema == IF okS /\ Reaches(rBase + 1) THEN rHostSch
                     ELSE EmptyCSchema
           filled == array.release /\ schema.release
       IN /\ rHostOk' = (rHostOk /\ okI /\ okA /\ okS)
          /\ IF ~(okI /\ rHostTag)
             THEN rRes' = "panic" /\ rOutArr' = rOutArr
             ELSE IF ~filled
             THEN rRes' \in UnfilledOutcomes /\ rOutArr' = rOutArr
             ELSE IF TypeOfFormat(schema.format) = "unsupported"
             THEN rRes' = "Err" /\ rOutArr' = rOutArr
             ELSE rRes' = "Ok" /\ rOutArr' = from_ffi(array, schema)
  /\ rPc' = "imported"
  /\ UNCHANGED <<rKind, rArr, rVec, rBase, rHostArr, rHostSch, rHostTag,
                 rHostStream, rReader, rOut, rEnds, rIdle, rSch, rOutSch>>

\* ArrowArrayStreamReader::from_arrow_robj: the host moves its stream into
\* an empty local by the text of its address, result discarded;
\* try_new refuses a stream that was not filled, otherwise asks the stream
\* for its schema once and keeps it.
round_import_stream ==
  /\ rKind \in {"batch", "vec"} /\ rPc = "exported"
  /\ \E okX \in BOOLEAN :
       LET got == okX /\ Reaches(rBase) /\ rHostStream.release
           stream == IF got THEN rHostStream ELSE EmptyStream
       IN /\ rHostOk' = (rHostOk /\ okX)
          /\ rHostStream' = IF got THEN EmptyStream ELSE rHostStream
          /\ IF stream.release
             THEN /\ rReader' = [live |-> TRUE,
                                 fields |-> import_schema(
                                              export_schema(stream.schema)),
                                 prod |-> stream.prod]
                  /\ rRes' = "Ok" /\ rPc' = "reading"
             ELSE /\ rReader' = rReader
                  /\ rRes' = "Err" /\ rPc' = "done"
  /\ UNCHANGED <<rKind, rArr, rVec, rBase, rHostArr, rHostSch, rHostTag,
                 rOutArr, rOut, rEnds, rIdle, rSch, rOutSch>>

\* next() of the imported reader: get_next of the exported stream asks the
\* boxed iterator for its next batch and exports it as a struct array, which
\* the reader imports under its schema; when the iterator is finished the
\* struct comes back released and next() yields None.
round_next ==
  /\ rPc = "reading" /\ rReader.live
  /\ IF rReader.prod = <<>>
     THEN /\ rEnds < MaxEnds
          /\ rEnds' = rEnds + 1
          /\ UNCHANGED <<rReader, rOut>>
     ELSE /\ rOut' = Append(rOut, import_batch(export_batch(Head(rReader.prod)),
                                               rReader.fields))
          /\ rReader' = [rReader EXCEPT !.prod = Tail(rReader.prod)]
          /\ rEnds' = rEnds
  /\ UNCHANGED <<rKind, rArr, rVec, rBase, rPc, rHostArr, rHostSch, rHostTag,
                 rHostStream, rHostOk, rOutArr, rRes, rIdle, rSch, rOutSch>>

\* Field / Schema / DataType::to_arrow_robj: FFI_ArrowSchema::try_from into
\* a local, a receiver struct allocated (a failure is returned), the local
\* moved by the text of its address, the result of the move discarded.
round_export_schema ==
  /\ rKind \in SchemaKinds /\ rPc = "start"
  /\ \E okAlloc, okM \in BOOLEAN :
       LET c == CASE rKind = "Field" ->
                       ffi_schema_of(rSch.ty, rSch.name, rSch.nullable)
                  [] rKind = "DataType" -> ffi_schema_of(rSch, "", FALSE)
                  [] OTHER ->
                       ffi_schema_of([kind |-> "Struct", children |-> rSch],
                                     "", FALSE)
       IN IF ~okAlloc
          THEN /\ rRes' = "Err" /\ rPc' = "done" /\ rHostOk' = FALSE
               /\ UNCHANGED rHostSch
          ELSE /\ rHostSch' = IF okM /\ Reaches(rBase) THEN c
                              ELSE EmptyCSchema
               /\ rHostOk' = okM
               /\ rRes' = "Ok" /\ rPc' = "exported"
  /\ UNCHANGED <<rKind, rArr, rVec, rBase, rHostArr, rHostTag, rHostStream,
                 rOutArr, rReader, rOut, rEnds, rIdle, rSch, rOutSch>>

\* Field / DataType / Schema::from_arrow_robj on a nanoarrow_schema: the
\* host exports the schema into an empty local by the text of its address,
\* result discarded, and Field::try_from / DataType::try_from /
\* Schema::try_from reads the local; Schema::try_from refuses a struct that
\* is not of the struct type.
round_import_schema ==
  /\ rKind \in SchemaKinds /\ rPc = "exported"
  /\ \E okX \in BOOLEAN :
       LET c == IF okX /\ Reaches(rBase) THEN rHostSch ELSE EmptyCSchema
           f == Field_try_from(c)
       IN /\ rHostOk' = (rHostOk /\ okX)
          /\ IF ~c.release
             THEN rRes' \in UnfilledOutcomes /\ rOutSch' = rOutSch
             ELSE IF Unparsed(f) \/ (rKind = "Schema" /\ f.ty.kind # "Struct")
             THEN rRes' = "Err" /\ rOutSch' = rOutSch
             ELSE /\ rRes' = "Ok"
                  /\ rOutSch' = CASE rKind = "Field" -> f
                                  [] rKind = "DataType" -> f.ty
                                  [] OTHER -> f.ty.children
  /\ rPc' = "imported"
  /\ UNCHANGED <<rKind, rArr, rVec, rBase, rHostArr, rHostSch, rHostTag,
                 rHostStream, rOutArr, rReader, rOut, rEnds, rIdle, rSch>>

\* RecordBatch::from_arrow_robj on an arrow RecordBatch (rVec[1] is the
\* batch the R object holds): export_to_c fills the two locals by the text
\* of their addresses, result discarded; from_ffi imports the struct array,
\* Schema::try_from the schema, and RecordBatch::try_new puts the children
\* under the schema.  from_ffi on structs the host left empty fails or
\* panics.
round_import_full ==
  /\ rKind = "full" /\ rPc = "start"
  /\ \E okX \in BOOLEAN, bad \in UnfilledOutcomes :
       LET got == okX /\ Reaches(rBase) /\ Reaches(rBase + 1)
           array == IF got THEN export_batch(rVec[1]) ELSE EmptyArray
           schema == IF got THEN export_schema(rVec[1].schema)
                     ELSE EmptyCSchema
           fields == import_schema(schema)
           cols == child_data(array, fields)
       IN /\ rHostOk' = okX
          /\ rHostArr' = array
          /\ rHostSch' = schema
          /\ IF ~(array.release /\ schema.release)
             THEN rRes' = bad /\ rOut' = rOut
             ELSE IF try_new_ok(fields, cols)
             THEN rRes' = "Ok" /\ rOut' = <<BatchOf(fields, cols)>>
             ELSE rRes' = "Err" /\ rOut' = rOut
  /\ rPc' = "done"
  /\ UNCHANGED <<rKind, rArr, rVec, rBase, rHostTag, rHostStream, rOutArr,
                 rReader, rEnds, rIdle, rSch, rOutSch>>

RoundNext ==
  \/ round_import_full
  \/ round_export_array
  \/ round_export_stream
  \/ round_import_array
  \/ round_import_stream
  \/ round_next
  \/ round_export_schema
  \/ round_import_schema

SpecFrom == FromInit /\ [][FromNext]_vars

SpecTo == ToInit /\ [][ToNext]_vars

SpecRound == RoundInit /\ [][RoundNext]_vars

\* ================================================================ claims

\* The classes a conversion accepts (from.rs, the table of supported
\* R objects).
Recognised(t) == {LightTag(t), FullTag(t)} \ {NoTag}

\* C1: a from_arrow_robj call on an R object that carries none of the
\* classes the conversion recognises allocates no C-ABI struct, makes no host
\* export call and hands no address to the host, and returns an error; and in
\* every call the class check has run before the first host export call.
C1_UnrecognisedTouchesNothing ==
  /\ (iClasses \cap Recognised(iTarget) = {}) =>
        /\ iAlloc = NoStruct
        /\ iHostCalls = 0
        /\ iAddrs = {}
        /\ iPc \in {"check", "done"}
        /\ (iPc = "done" => iResult = "Err")
  /\ ((iHostCalls > 0 \/ iAddrs # {}) => iChecked)

C1_Witness ==
  /\ iPc = "done"
  /\ iClasses # {}
  /\ iClasses \cap Recognised(iTarget) = {}
  /\ iResult = "Err"

\* C5: every struct the host populated for an import is released exactly
\* once by the native side.  No struct is released more often than it was
\* populated; the schema struct is released when from_arrow_robj has
\* returned, whatever the result, and not before; an array struct is live
\* while a native reference to its data exists and released once the last is
\* gone; the stream struct is live while the reader is and released once the
\* reader is dropped.
C5_ImportedReleasedOnce ==
  /\ \A s \in Structs :
        /\ iRelCount[s] <= iPop[s]
        /\ (iRel[s] => iRelCount[s] + 1 = iPop[s])
        /\ (~iRel[s] => iRelCount[s] = iPop[s])
  /\ (iPc = "done" => ~iRel["schema"])
  /\ (iPc # "done" => iRelCount["schema"] = 0)
  /\ \A s \in {"array", "pulled"} :
        /\ (iHolder[s] = "native" /\ iRefs > 0 => iRel[s])
        /\ (iPc = "done" /\ iRefs = 0 => ~iRel[s])
  /\ (iReader = "live" => iRel["stream"])
  /\ (iPc = "done" /\ iReader # "live" => ~iRel["stream"])

C5_Witness ==
  /\ iPc = "done"
  /\ iTarget = "ArrayData"
  /\ iResult = "Ok"
  /\ iRefs = 0
  /\ iRelCount["array"] = 1
  /\ iRelCount["schema"] = 1

\* C2: the resources of every struct an export creates are freed at most
\* once and are never lost: a created struct's resources are owned by exactly
\* one of the exporter's local, the receiver's struct, or nobody because they
\* were freed.  Once the export has returned: the local owns nothing; after a
\* completed move the exporter's drop freed nothing and the resources are
\* freed by the receiver's release, and only by it; without a completed move
\* the exporter's drop freed them.
C2_ExportedReleasedOnce ==
  \A s \in EStructs :
    /\ eFreed[s] <= 1
    /\ (eFreed[s] = 1 => eCreated[s])
    /\ eCreated[s] =>
          Cardinality({w \in {"src", "dst", "freed"} :
                         \/ w = "src" /\ eSrcRel[s]
                         \/ w = "dst" /\ eDstRel[s]
                         \/ w = "freed" /\ eFreed[s] = 1}) = 1
    /\ (ePc = "done" /\ eCreated[s]) =>
          /\ ~eSrcRel[s]
          /\ (eMoved[s] /\ eDstCalls[s] = 0 => eFreed[s] = 0 /\ eDstRel[s])
          /\ (eMoved[s] /\ eDstCalls[s] > 0 => eFreed[s] = 1)
          /\ (~eMoved[s] => eFreed[s] = 1)

C2_Witness ==
  /\ ePc = "done"
  /\ eKind = "ArrayData"
  /\ eMoved["array"] /\ eDstCalls["array"] = 1 /\ eFreed["array"] = 1
  /\ ~eMoved["schema"] /\ eFreed["schema"] = 1

\* C3: when the receiver invokes release on a struct whose release field is
\* non-null, the resources are freed, for the first and only time, and the
\* field becomes null; when it invokes release on a struct whose release
\* field is null, nothing is freed and no state changes.
C3_SecondReleaseNoOp ==
  [][\A s \in EStructs :
       (eDstCalls'[s] = eDstCalls[s] + 1) =>
         IF eDstRel[s]
         THEN /\ eFreed[s] = 0
              /\ eFreed'[s] = 1
              /\ ~eDstRel'[s]
              /\ ~eSrcRel'[s]
         ELSE UNCHANGED <<eFreed, eDstRel, eSrcRel, eBuf, eStream>>]_vars

C3_Witness ==
  /\ eKind = "Field"
  /\ eMoved["schema"]
  /\ eDstCalls["schema"] = 2
  /\ eFreed["schema"] = 1

\* The exported array struct, or the exported schema struct, still owns its
\* resources.
ArrayLive == eSrcRel["array"] \/ eDstRel["array"]
SchemaLive == eSrcRel["schema"] \/ eDstRel["schema"]

\* C4, as claimed: the buffers are freed only once the native array, the
\* exported array struct and the exported schema struct have all released.
C4_FreedOnlyAfterAllThree ==
  eBufFreed => (eNative = "dropped" /\ ~eTemp /\ ~ArrayLive /\ ~SchemaLive)

\* C4, amended: the buffers are freed only once the native array (and the
\* clone PrimitiveArray::to_arrow_robj makes) and the exported array struct
\* have released; the schema struct holds no reference to them.  The
\* reference count equals the number of live holders, no live holder sees
\* freed buffers, and the export itself never drops the caller's array.
C4_FreedOnlyAfterHolders ==
  /\ eBufFreed => (eNative = "dropped" /\ ~eTemp /\ ~ArrayLive)
  /\ eBufRc = (IF eNative = "alive" THEN 1 ELSE 0) + (IF eTemp THEN 1 ELSE 0)
                + (IF ArrayLive THEN 1 ELSE 0)
  /\ (eKind \in ArrayKinds /\ ePc # "done" => eNative = "alive")

C4_Witness ==
  /\ eKind = "PrimitiveArray"
  /\ eMoved["array"]
  /\ eBufFreed
  /\ SchemaLive

\* Order of the stream states of spec 4.4.
Rank(st) ==
  CASE st = "Created" -> 1
    [] st = "Iterating" -> 2
    [] st = "Exhausted" -> 3
    [] st = "Released" -> 4
    [] OTHER -> 0

\* C7: an exported stream only moves forward through Created, Iterating,
\* Exhausted and Released; the receiver's release of a live stream takes it
\* to Released from whichever state it is in; the reader is alive exactly
\* while the stream is not Released; and once Released no pull yields a batch
\* or an end sentinel.
C7_StreamLifecycle ==
  /\ [](eCreated["stream"] => (eProdLive <=> StreamState # "Released"))
  /\ [][/\ Rank(StreamState') >= Rank(StreamState)
        /\ (StreamState = "Released" =>
              eOut' = eOut /\ eEnds' = eEnds /\ eProd' = eProd)
        /\ (eDstCalls'["stream"] > eDstCalls["stream"] /\ eDstRel["stream"] =>
              StreamState' = "Released" /\ eRelFrom' = StreamState)]_vars

C7_Witness ==
  /\ eRelFrom = "Iterating"
  /\ StreamState = "Released"
  /\ eProd # <<>>
  /\ eFailed > 0

\* C9: RecordBatch::from_arrow_robj on a nanoarrow_array_stream that holds
\* k >= 1 batches, when no host call fails, makes exactly one pull, returns
\* Ok with the first batch and leaves the other k - 1 in the source; it never
\* pulls more than once.
C9_FirstBatchOnly ==
  (iTarget = "RecordBatch" /\ iBranch = "light") =>
    /\ iPulls <= 1
    /\ (iPc \in {"return", "done"} /\ Len(iSrc0) >= 1 /\ ~iHostFail) =>
          /\ iResult = "Ok"
          /\ iPulls = 1
          /\ iGot = <<iSrc0[1]>>
          /\ iSrc = Tail(iSrc0)

C9_Witness ==
  /\ iTarget = "RecordBatch"
  /\ iBranch = "light"
  /\ iPc = "done"
  /\ iResult = "Ok"
  /\ Len(iSrc0) = 2
  /\ iSrc0[1] # iSrc0[2]
  /\ Len(iSrc) = 1

\* The host did what every call asked of it, on the way out and on the way in.
HostWorked == rHostOk

\* C6: a stream exported from a sequence of N batches (N >= 0) and imported
\* yields from next() a prefix of the N batches, in order; once next() has
\* yielded the end sentinel exactly the N batches have been yielded, and
\* every further next() yields the sentinel again and no batch.
C6_ExactlyNThenSentinel ==
  (rKind = "vec" /\ HostWorked /\ rPc \in {"exported", "reading", "done"}) =>
    /\ rPc # "done"
    /\ (rPc = "reading" =>
          /\ rRes = "Ok"
          /\ Len(rOut) <= Len(rVec)
          /\ rOut = SubSeq(rVec, 1, Len(rOut))
          /\ Len(rOut) + Len(rReader.prod) = Len(rVec)
          /\ (rEnds > 0 => Len(rOut) = Len(rVec)))

\* C6 witness: two batches were yielded in order and the sentinel was then
\* yielded more than once.
C6_Witness ==
  /\ rKind = "vec" /\ HostWorked /\ rPc = "reading"
  /\ Len(rVec) = 2 /\ rVec[1] # rVec[2]
  /\ rOut = rVec /\ rEnds = 2

\* C8: a single RecordBatch exported and imported through the stream reader
\* yields exactly one batch, equal to the exported one in schema, row count
\* and column values, and then the end sentinel.
C8_SingleBatchRoundTrip ==
  (rKind = "batch" /\ HostWorked /\ rPc \in {"exported", "reading", "done"}) =>
    /\ rPc # "done"
    /\ (rPc = "reading" =>
          /\ rRes = "Ok"
          /\ rReader.fields = rVec[1].schema
          /\ Len(rOut) <= 1
          /\ (rEnds > 0 => Len(rOut) = 1)
          /\ (Len(rOut) = 1 =>
                /\ rOut[1].schema = rVec[1].schema
                /\ rOut[1].rows = rVec[1].rows
                /\ Len(rOut[1].cols) = Len(rVec[1].cols)
                /\ \A i \in 1..Len(rVec[1].cols) :
                     /\ rOut[1].cols[i].ty = rVec[1].cols[i].ty
                     /\ Elems(rOut[1].cols[i]) = Elems(rVec[1].cols[i])))

\* C8 witness: the batch {id: [1, 2, 3, 4, 5]} came back and the sentinel
\* followed it.
C8_Witness ==
  /\ rKind = "batch" /\ HostWorked /\ rPc = "reading"
  /\ Len(rOut) = 1 /\ rEnds > 0
  /\ rOut[1].schema = <<FieldOf("id", "Int32", FALSE)>>
  /\ Elems(rOut[1].cols[1]) = <<Some(1), Some(2), Some(3), Some(4), Some(5)>>

\* C10: for every primitive type and every native array of it, nulls
\* included, the array imported from the exported array has the same type,
\* length, null count and validity pattern, and the same value at every
\* non-null position.
C10_ArrayRoundTrip ==
  (rKind = "array" /\ HostWorked /\ rPc = "imported") =>
    /\ rRes = "Ok"
    /\ rOutArr.ty = rArr.ty
    /\ rOutArr.len = rArr.len
    /\ rOutArr.null_count = rArr.null_count
    /\ rOutArr.null_count =
         Cardinality({i \in 1..rOutArr.len : ~Elem(rOutArr, i).some})
    /\ \A i \in 1..rArr.len :
         /\ Elem(rOutArr, i).some = Elem(rArr, i).some
         /\ (Elem(rArr, i).some => Elem(rOutArr, i).v = Elem(rArr, i).v)

\* C10 witness: [1, null, 3] came back with length 3, null count 1 and the
\* values 1 and 3 at positions 0 and 2.
C10_Witness ==
  /\ rKind = "array" /\ HostWorked /\ rPc = "imported" /\ rRes = "Ok"
  /\ Elems(rArr) = <<Some(1), None, Some(3)>>
  /\ rOutArr.len = 3 /\ rOutArr.null_count = 1
  /\ Elem(rOutArr, 1) = Some(1) /\ Elem(rOutArr, 3) = Some(3)

\* C11: for every Field, DataType and Schema, nested struct and list types
\* included, the value imported from the exported value equals it: the same
\* data type (hence format string), the same name and nullability, and
\* recursively equal children in the same order.
C11_SchemaRoundTrip ==
  (rKind \in SchemaKinds /\ HostWorked /\ rPc = "imported") =>
    /\ rRes = "Ok"
    /\ rOutSch = rSch

\* C11 witness: a nullable field of a struct type with two different
\* children came back.
C11_Witness ==
  /\ rKind = "Field" /\ HostWorked /\ rPc = "imported" /\ rRes = "Ok"
  /\ rSch.nullable /\ rSch.ty.kind = "Struct" /\ Len(rSch.ty.children) = 2
  /\ rSch.ty.children[1] # rSch.ty.children[2]
  /\ rOutSch = rSch

\* C12: every batch RecordBatch::from_arrow_robj returns, from a stream
\* handle or from a RecordBatch object, has every column of the length of
\* its row count, and it returns a batch only from a source whose columns
\* agree in length.
C12_ColumnsMatchRows ==
  (iTarget = "RecordBatch" /\ iResult = "Ok" /\ iPc \in {"return", "done"}) =>
    /\ \A i \in 1..Len(iBatch.cols) : iBatch.cols[i] = iBatch.rows
    /\ \A i \in 1..Len(iShape.cols) : iShape.cols[i] = iShape.cols[1]

\* C13: each from_arrow_robj target goes on to convert exactly the objects
\* of its documented classes (Field: nanoarrow_schema or Field; Schema:
\* nanoarrow_schema or Schema; DataType: nanoarrow_schema or DataType;
\* ArrayData: nanoarrow_array or Array; RecordBatch: nanoarrow_array_stream
\* or RecordBatch; ArrowArrayStreamReader: nanoarrow_array_stream only); an
\* object of any other class is rejected with an error and nothing is
\* converted from it.
C13_AcceptsExactlyDocumented ==
  LET Accepts ==
        CASE iTarget = "Field" -> {"nanoarrow_schema", "Field"}
          [] iTarget = "Schema" -> {"nanoarrow_schema", "Schema"}
          [] iTarget = "DataType" -> {"nanoarrow_schema", "DataType"}
          [] iTarget = "ArrayData" -> {"nanoarrow_array", "Array"}
          [] iTarget = "RecordBatch" -> {"nanoarrow_array_stream", "RecordBatch"}
          [] OTHER -> {"nanoarrow_array_stream"}
      accepted == iClasses \cap Accepts # {}
  IN /\ iChecked => ((iBranch # "none") <=> accepted)
     /\ ~accepted =>
          /\ iResult # "Ok"
          /\ (iChecked => iPc = "done" /\ iResult = "Err")
          /\ iHostCalls = 0 /\ iRefs = 0 /\ iReader = "none"
          /\ iGot = <<>> /\ iBatch = NoShape

\* C13 witness: an array handle given to the Schema conversion was rejected.
C13_Witness ==
  /\ iTarget = "Schema" /\ iClasses = {"nanoarrow_array"}
  /\ iPc = "done" /\ iResult = "Err" /\ iBranch = "none"

\* C14: an export whose pointer move or array-set-schema call failed returns
\* an error: a to_arrow_robj that has returned Ok has moved every struct it
\* created into its receiver, and has tagged the array with its schema.
C14_HostFailureIsError ==
  (ePc = "done" /\ eResult = "Ok") =>
    /\ \A s \in EStructs : eCreated[s] => eMoved[s] /\ eDstAlloc[s]
    /\ (eKind \in ArrayKinds => eTagged)

\* C15: a nanoarrow helper that is absent makes the conversion that calls it
\* return an error value.  With a type that has a C-ABI format the host
\* helpers are all that can fail in an export, so a to_arrow_robj on such a
\* value ends with Ok or Err and never unwinds.
C15_AbsentHelperIsError ==
  (eSupported /\ ePc \in {"return", "done"}) => eResult \in {"Ok", "Err"}

\* C16: RecordBatch::from_arrow_robj on a nanoarrow_array_stream whose first
\* pull took nothing from the source (the stream was at its end, or get_next
\* reported a failure) returns an error: it neither panics nor has a batch.
C16_EmptyStreamIsError ==
  (/\ iTarget = "RecordBatch" /\ iBranch = "light"
   /\ iPc \in {"return", "done"}
   /\ iPulls = 1 /\ iSrc = iSrc0) =>
    /\ iResult = "Err"
    /\ iBatch = NoShape

\* C17: exporting a Field, Schema, DataType or array whose type has no C-ABI
\* format string returns an error, and the host is asked for no receiver
\* struct and fills none.
C17_UnsupportedTypeIsError ==
  (/\ ~eSupported /\ eKind \in SchemaKinds \cup ArrayKinds
   /\ ePc \in {"return", "done"}) =>
    /\ eResult = "Err"
    /\ \A s \in EStructs : ~eDstAlloc[s] /\ ~eMoved[s] /\ ~eDstRel[s]

\* C18: an export that created structs and then failed before any of them
\* reached its receiver returns an error, and each struct it created has
\* been released exactly once, with no release field left set.
C18_FailedExportReleasesAll ==
  (/\ ePc = "done"
   /\ \E s \in EStructs : eCreated[s]
   /\ \A s \in EStructs : ~eMoved[s]) =>
    /\ eResult = "Err"
    /\ \A s \in EStructs :
         eCreated[s] => eFreed[s] = 1 /\ ~eSrcRel[s] /\ ~eDstRel[s]

\* C19: ArrayData::from_arrow_robj on an array whose descriptor carries a
\* dictionary fails: it never returns Ok, and no native array is made from
\* the descriptor.
C19_DictionaryIsError ==
  (iTarget = "ArrayData" /\ iDict /\ iPc \in {"return", "done"}) =>
    /\ iResult # "Ok"
    /\ iRefs = 0

\* C20: ArrowArrayStreamReader::from_arrow_robj calls get_schema exactly once,
\* when the reader is constructed, and no pull calls it again: whenever the
\* reader exists or a pull has been made, one get_schema call has been made.
C20_SchemaFetchedOnce ==
  iTarget = "ArrowArrayStreamReader" =>
    /\ iSchemaCalls <= 1
    /\ (iReader # "none" \/ iPulls > 0) => iSchemaCalls = 1

\* A reader that has been pulled more than once, past a batch.
C20_Witness ==
  /\ iTarget = "ArrowArrayStreamReader"
  /\ iPulls >= 2 /\ Len(iGot) >= 1
  /\ iSchemaCalls = 1

\* C21 (as stated): every live struct an export created is in heap storage,
\* at the one address it has until it is released: none lies in the frame of
\* the exporting call.
C21_HeapStableAddress ==
  \A s \in EStructs : Place(s) \in {"none", "receiver"}

\* C21 (amended): the structs are locals of the exporting call; the address
\* handed to the host in a move designates a local that is live and
\* populated when the host reads it, and a completed move leaves the content
\* in the receiver's struct only.
C21_AddressLiveWhenRead ==
  /\ ePc = "move1" => Place(NthStruct(eKind, 1)) = "local"
  /\ ePc = "move2" => Place(NthStruct(eKind, 2)) = "local"
  /\ \A s \in EStructs :
       /\ eMoved[s] => Place(s) # "local"
       /\ ePc = "done" => Place(s) # "local"

\* The schema local of an array export about to be handed over, the array
\* already with the receiver.
C21_Witness ==
  /\ eKind = "ArrayData" /\ ePc = "move2"
  /\ Place("array") = "receiver"
  /\ Place("schema") = "local"

\* C22: RecordBatch::from_arrow_robj on an arrow RecordBatch pairs the i-th
\* child of the imported struct array with the i-th field of the imported
\* schema, whatever the names: when the host filled the structs the batch
\* returned has one column per field, column i of the type of field i and
\* with the elements of column i of the host's batch.
C22_ColumnsByPosition ==
  (rKind = "full" /\ rPc = "done" /\ HostWorked) =>
    /\ rRes = "Ok"
    /\ Len(rOut) = 1
    /\ LET b == rOut[1] IN
         /\ b.schema = rVec[1].schema
         /\ Len(b.cols) = Len(b.schema)
         /\ \A i \in 1..Len(b.cols) :
              /\ b.cols[i].ty = b.schema[i].ty
              /\ Elems(b.cols[i]) = Elems(rVec[1].cols[i])

\* A batch of two columns whose fields have one name and different types.
C22_Witness ==
  /\ rKind = "full" /\ rPc = "done" /\ rRes = "Ok"
  /\ Len(rOut) = 1
  /\ Len(rOut[1].cols) = 2
  /\ rOut[1].schema[1].name = rOut[1].schema[2].name
  /\ rOut[1].schema[1].ty # rOut[1].schema[2].ty
  /\ rOut[1].rows >= 2

\* C23: the stream exported from a non-empty Vec<RecordBatch> declares the
\* schema of the first batch, yields the batches in vector order, and every
\* batch it yields has the declared schema.
C23_OneSchemaForAll ==
  (eKind = "VecRecordBatch" /\ eVec # <<>> /\ eCreated["stream"]) =>
    /\ eSchema = eVec[1].sch
    /\ Len(eOut) <= Len(eVec)
    /\ \A i \in 1..Len(eOut) :
         /\ eOut[i] = eVec[i]
         /\ eOut[i].sch = eSchema

====
